---- MODULE Spec2Model ----
(***************************************************************************)
(* A model of collect.py: load_gitignore_rules, should_ignore,             *)
(* collect_files (the os.walk loop) and save_structure, as run by main().  *)
(*                                                                         *)
(* Python strings are modelled as sequences of one-character strings, so   *)
(* that strip, rstrip, split, fnmatch, splitext, join and relpath are      *)
(* computed character by character as the library computes them; file      *)
(* contents and the placeholder text are such sequences too.  The report   *)
(* save_structure writes is kept as the lines written.                     *)
(***************************************************************************)
EXTENDS Integers, Sequences, FiniteSets, TLC

(***************************************************************************)
(* Characters                                                              *)
(***************************************************************************)

Upper ==
    << "A", "B", "C", "D", "E", "F", "G", "H", "I", "J", "K", "L", "M",
       "N", "O", "P", "Q", "R", "S", "T", "U", "V", "W", "X", "Y", "Z" >>

Lower ==
    << "a", "b", "c", "d", "e", "f", "g", "h", "i", "j", "k", "l", "m",
       "n", "o", "p", "q", "r", "s", "t", "u", "v", "w", "x", "y", "z" >>

\* The characters the model's inputs use, in code-point order.
Ascii ==
    << "\n", " ", "!", "#", "&", "*", "-", ".", "/",
       "0", "1", "2", "3", "4", "5", "6", "7", "8", "9", "?" >>
    \o Upper \o << "[", "\\", "]", "^", "_" >> \o Lower \o << "|", "~" >>

\* ord(c): the position of c in code-point order
Ord(c) == CHOOSE i \in 1..Len(Ascii) : Ascii[i] = c

\* str.isspace() on the characters of the model
Whitespace == { " ", "\n" }

\* os.sep on the POSIX build
os_sep == "/"

(***************************************************************************)
(* str methods                                                             *)
(***************************************************************************)

lower_char(c) ==
    IF \E i \in 1..Len(Upper) : Upper[i] = c
    THEN Lower[CHOOSE i \in 1..Len(Upper) : Upper[i] = c]
    ELSE c

\* str.lower()
lower(s) == [i \in 1..Len(s) |-> lower_char(s[i])]

\* str.endswith(suffix)
endswith(s, suffix) ==
    /\ Len(s) >= Len(suffix)
    /\ SubSeq(s, Len(s) - Len(suffix) + 1, Len(s)) = suffix

\* str.startswith(prefix)
startswith(s, prefix) ==
    /\ Len(s) >= Len(prefix)
    /\ SubSeq(s, 1, Len(prefix)) = prefix

\* str.rstrip(chars): every trailing character in chars is removed
RECURSIVE rstrip(_, _)
rstrip(s, chars) ==
    IF s # << >> /\ s[Len(s)] \in chars
    THEN rstrip(SubSeq(s, 1, Len(s) - 1), chars)
    ELSE s

\* str.lstrip(chars)
RECURSIVE lstrip(_, _)
lstrip(s, chars) ==
    IF s # << >> /\ s[1] \in chars
    THEN lstrip(Tail(s), chars)
    ELSE s

\* str.strip(): leading and trailing whitespace removed
strip(s) == lstrip(rstrip(s, Whitespace), Whitespace)

\* str.replace(old, new) for one-character old and new
replace(s, old, new) == [i \in 1..Len(s) |-> IF s[i] = old THEN new ELSE s[i]]

\* str.split(sep) for a one-character sep: "".split("/") is [""]
RECURSIVE split(_, _)
split(s, sep) ==
    IF \A i \in 1..Len(s) : s[i] # sep
    THEN << s >>
    ELSE LET k == CHOOSE i \in 1..Len(s) :
                     s[i] = sep /\ \A j \in 1..(i - 1) : s[j] # sep
         IN  << SubSeq(s, 1, k - 1) >> \o split(SubSeq(s, k + 1, Len(s)), sep)

\* s[:-1]
DropLast(s) == SubSeq(s, 1, Len(s) - 1)

\* sep.join(parts)
RECURSIVE str_join(_, _)
str_join(parts, sep) ==
    IF parts = << >> THEN << >>
    ELSE IF Len(parts) = 1 THEN parts[1]
    ELSE parts[1] \o << sep >> \o str_join(Tail(parts), sep)

(***************************************************************************)
(* fnmatch.fnmatch(name, pat) on POSIX (os.path.normcase is the identity): *)
(* '*' matches any run of characters, '/' included; '?' matches one        *)
(* character; '[' up to its closing ']' is a character class, translated   *)
(* as fnmatch.translate translates it and read as re reads it; a '['       *)
(* without a closing ']' is a literal; anything else matches itself; the   *)
(* pattern must match the whole name.                                      *)
(***************************************************************************)

\* fnmatch.translate: the index of the ']' closing the class opened just
\* before position i, or 0 when there is none.
RECURSIVE ClassScan(_, _)
ClassScan(pat, j) ==
    IF j > Len(pat) THEN 0
    ELSE IF pat[j] = "]" THEN j
    ELSE ClassScan(pat, j + 1)

ClassEnd(pat, i) ==
    LET j1 == IF i <= Len(pat) /\ pat[i] = "!" THEN i + 1 ELSE i
        j2 == IF j1 <= Len(pat) /\ pat[j1] = "]" THEN j1 + 1 ELSE j1
    IN  ClassScan(pat, j2)

\* pat.find('-', k, j) inside stuff: the first index at or after k that
\* holds a hyphen, 0 when there is none
find_hyphen(stuff, k) ==
    IF \E h \in k..Len(stuff) : stuff[h] = "-"
    THEN CHOOSE h \in k..Len(stuff) :
             stuff[h] = "-" /\ \A g \in k..(h - 1) : stuff[g] # "-"
    ELSE 0

\* fnmatch.translate: the while loop that cuts stuff into chunks at the
\* hyphens that make ranges; i is where the chunk being cut starts, k where
\* the search for the next hyphen resumes; the last element is pat[i:j]
RECURSIVE cut_chunks(_, _, _)
cut_chunks(stuff, i, k) ==
    LET h == find_hyphen(stuff, k)
    IN  IF h = 0
        THEN << SubSeq(stuff, i, Len(stuff)) >>
        ELSE << SubSeq(stuff, i, h - 1) >> \o cut_chunks(stuff, h + 1, h + 3)

\* if chunk: chunks.append(chunk) else: chunks[-1] += '-'
class_chunks(stuff) ==
    LET cut == cut_chunks(stuff, 1, IF stuff[1] = "!" THEN 3 ELSE 2)
        n   == Len(cut)
    IN  IF n > 1 /\ cut[n] = << >>
        THEN SubSeq(cut, 1, n - 2) \o << cut[n - 1] \o << "-" >> >>
        ELSE cut

\* for k in range(len(chunks)-1, 0, -1): an empty range (its start above
\* its end) is removed, the two chunks around it becoming one
RECURSIVE remove_empty_ranges(_, _)
remove_empty_ranges(chunks, k) ==
    IF k < 2 THEN chunks
    ELSE LET before == chunks[k - 1]
             after  == chunks[k]
         IN  IF Ord(before[Len(before)]) > Ord(after[1])
             THEN remove_empty_ranges(
                      SubSeq(chunks, 1, k - 2)
                      \o << DropLast(before) \o Tail(after) >>
                      \o SubSeq(chunks, k + 1, Len(chunks)),
                      k - 1)
             ELSE remove_empty_ranges(chunks, k - 1)

\* stuff = '-'.join(escaped chunks): the characters of the chunks, each one
\* a literal (a hyphen inside a chunk is escaped), with an unescaped hyphen
\* between two chunks
RECURSIVE class_items(_)
class_items(chunks) ==
    IF chunks = << >> THEN << >>
    ELSE [i \in 1..Len(Head(chunks)) |-> << "char", Head(chunks)[i] >>]
         \o (IF Len(chunks) > 1
             THEN << << "hyphen", "-" >> >> \o class_items(Tail(chunks))
             ELSE << >>)

\* re, inside [...]: an item followed by an unescaped hyphen and another
\* item is a range; any other item, an unescaped hyphen too, stands for its
\* own character
RECURSIVE set_member(_, _, _)
set_member(c, items, k) ==
    IF k > Len(items) THEN FALSE
    ELSE IF k + 2 <= Len(items) /\ items[k + 1][1] = "hyphen"
    THEN \/ (Ord(items[k][2]) <= Ord(c) /\ Ord(c) <= Ord(items[k + 2][2]))
         \/ set_member(c, items, k + 3)
    ELSE \/ c = items[k][2]
         \/ set_member(c, items, k + 1)

\* Whether c matches the class whose text between the brackets is stuff:
\* nothing when the translated stuff is empty, anything when it is '!',
\* the complement of the rest when it starts with '!' (asked of the
\* translated stuff, after the empty ranges are removed)
InClass(c, stuff) ==
    LET items == class_items(
                     remove_empty_ranges(class_chunks(stuff),
                                         Len(class_chunks(stuff))))
    IN  IF items = << >> THEN FALSE
        ELSE IF items[1] = << "char", "!" >>
        THEN ~set_member(c, Tail(items), 1)
        ELSE set_member(c, items, 1)

RECURSIVE GlobMatch(_, _, _, _)
GlobMatch(name, i, pat, j) ==
    IF j > Len(pat) THEN i > Len(name)
    ELSE IF pat[j] = "*"
    THEN \/ GlobMatch(name, i, pat, j + 1)
         \/ (i <= Len(name) /\ GlobMatch(name, i + 1, pat, j))
    ELSE IF pat[j] = "?"
    THEN i <= Len(name) /\ GlobMatch(name, i + 1, pat, j + 1)
    ELSE IF pat[j] = "[" /\ ClassEnd(pat, j + 1) # 0
    THEN LET e == ClassEnd(pat, j + 1)
         IN  /\ i <= Len(name)
             /\ InClass(name[i], SubSeq(pat, j + 1, e - 1))
             /\ GlobMatch(name, i + 1, pat, e + 1)
    ELSE /\ i <= Len(name)
         /\ name[i] = pat[j]
         /\ GlobMatch(name, i + 1, pat, j + 1)

fnmatch(name, pat) == GlobMatch(name, 1, pat, 1)

(***************************************************************************)
(* should_ignore                                                           *)
(***************************************************************************)

\* A faulty variant: the directory rule is matched as a glob against each segment.
dir_rule_matches_glob(path, rule) ==
    LET r     == rstrip(rule, { "/" })
        parts == split(path, "/")
    IN  \E k \in 1..Len(parts) : fnmatch(parts[k], r)

\* rule.endswith('/'): rule.rstrip('/') equals some part of path.split('/')
dir_rule_matches(path, rule) ==
    LET r     == rstrip(rule, { "/" })
        parts == split(path, "/")
    IN  \E k \in 1..Len(parts) : r = parts[k]

\* A faulty variant: the glob is matched against the last segment (gitignore's way).
glob_rule_matches_basename(path, rule) ==
    LET parts == split(path, "/")
    IN  fnmatch(parts[Len(parts)], rule)

\* elif fnmatch.fnmatch(path, rule)
glob_rule_matches(path, rule) == fnmatch(path, rule)

rule_matches(path, rule) ==
    IF endswith(rule, << "/" >>)
    THEN dir_rule_matches(path, rule)
    ELSE glob_rule_matches(path, rule)

\* for rule in ignore_rules: ... return True; return False
RECURSIVE ignore_loop(_, _)
ignore_loop(path, ignore_rules) ==
    IF ignore_rules = << >> THEN FALSE
    ELSE IF rule_matches(path, Head(ignore_rules)) THEN TRUE
    ELSE ignore_loop(path, Tail(ignore_rules))

should_ignore(path, ignore_rules) ==
    ignore_loop(replace(path, os_sep, "/"), ignore_rules)

(***************************************************************************)
(* os.path on POSIX                                                        *)
(***************************************************************************)

\* os.getcwd(): the directory the process runs in
getcwd == << "/", "w" >>

\* os.path.isabs
isabs(path) == startswith(path, << "/" >>)

\* os.path.join(a, b)
join(a, b) ==
    IF isabs(b) THEN b
    ELSE IF a = << >> \/ endswith(a, << "/" >>) THEN a \o b
    ELSE a \o << "/" >> \o b

\* os.path.normpath: the loop over the components of the path
RECURSIVE norm_comps(_, _, _)
norm_comps(comps, new_comps, initial_slashes) ==
    IF comps = << >> THEN new_comps
    ELSE LET comp == Head(comps)
             dotdot == << ".", "." >>
         IN  IF comp = << >> \/ comp = << "." >>
             THEN norm_comps(Tail(comps), new_comps, initial_slashes)
             ELSE IF \/ comp # dotdot
                     \/ (initial_slashes = 0 /\ new_comps = << >>)
                     \/ (new_comps # << >> /\ new_comps[Len(new_comps)] = dotdot)
             THEN norm_comps(Tail(comps), Append(new_comps, comp), initial_slashes)
             ELSE IF new_comps # << >>
             THEN norm_comps(Tail(comps), SubSeq(new_comps, 1, Len(new_comps) - 1),
                             initial_slashes)
             ELSE norm_comps(Tail(comps), new_comps, initial_slashes)

\* os.path.normpath
normpath(path) ==
    IF path = << >> THEN << "." >>
    ELSE LET initial_slashes ==
                 IF ~startswith(path, << "/" >>) THEN 0
                 ELSE IF startswith(path, << "/", "/" >>)
                         /\ ~startswith(path, << "/", "/", "/" >>) THEN 2
                 ELSE 1
             comps  == norm_comps(split(path, "/"), << >>, initial_slashes)
             joined == [i \in 1..initial_slashes |-> "/"] \o str_join(comps, "/")
         IN  IF joined = << >> THEN << "." >> ELSE joined

\* os.path.abspath
abspath(path) == normpath(IF isabs(path) THEN path ELSE join(getcwd, path))

\* [x for x in s.split('/') if x]
non_empty(parts) == SelectSeq(parts, LAMBDA x : x # << >>)

\* os.path.commonprefix of two lists: the length of the common prefix
RECURSIVE common_len(_, _)
common_len(a, b) ==
    IF a = << >> \/ b = << >> \/ Head(a) # Head(b) THEN 0
    ELSE 1 + common_len(Tail(a), Tail(b))

\* os.path.relpath(path, start)
relpath(path, start) ==
    LET start_list == non_empty(split(abspath(start), "/"))
        path_list  == non_empty(split(abspath(path), "/"))
        i          == common_len(start_list, path_list)
        rel_list   == [k \in 1..(Len(start_list) - i) |-> << ".", "." >>]
                      \o SubSeq(path_list, i + 1, Len(path_list))
    IN  IF rel_list = << >> THEN << "." >> ELSE str_join(rel_list, "/")

\* str.rfind(c): the last index of c, 0 when absent (Python's -1)
rfind(s, c) ==
    IF \E i \in 1..Len(s) : s[i] = c
    THEN CHOOSE i \in 1..Len(s) : s[i] = c /\ \A j \in (i + 1)..Len(s) : s[j] # c
    ELSE 0

\* os.path.splitext(p)[1]: from the last dot of the last component, unless
\* only dots precede it there
splitext_ext(p) ==
    LET sepIndex == rfind(p, "/")
        dotIndex == rfind(p, ".")
    IN  IF /\ dotIndex > sepIndex
           /\ \E k \in (sepIndex + 1)..(dotIndex - 1) : p[k] # "."
        THEN SubSeq(p, dotIndex, Len(p))
        ELSE << >>

(***************************************************************************)
(* Program constants                                                       *)
(***************************************************************************)

\* rules.append(".git/")
s_git_rule == << ".", "g", "i", "t", "/" >>

s_get_pip == << "g", "e", "t", "-", "p", "i", "p", ".", "p", "y" >>

non_text_extensions ==
    { << ".", "p", "n", "g" >>,
      << ".", "j", "p", "g" >>,
      << ".", "j", "p", "e", "g" >>,
      << ".", "g", "i", "f" >>,
      << ".", "b", "m", "p" >>,
      << ".", "t", "i", "f", "f" >>,
      << ".", "i", "c", "o" >>,
      << ".", "s", "v", "g" >>,
      << ".", "l", "o", "g" >>,
      << ".", "w", "e", "b", "p" >>,
      << ".", "a", "i" >>,
      << ".", "t", "t", "f" >>,
      << ".", "w", "o", "f", "f" >>,
      << ".", "w", "o", "f", "f", "2" >>,
      << ".", "e", "o", "t" >> }

\* "Content ignored due to file type or rules"
ignored_content ==
    << "C", "o", "n", "t", "e", "n", "t", " ", "i", "g", "n", "o", "r", "e",
       "d", " ", "d", "u", "e", " ", "t", "o", " ", "f", "i", "l", "e", " ",
       "t", "y", "p", "e", " ", "o", "r", " ", "r", "u", "l", "e", "s" >>

\* main(): project_root, output_file
s_dot == << "." >>

s_output_default ==
    << "p", "r", "o", "j", "e", "c", "t", "_", "s", "t", "r", "u", "c", "t",
       "u", "r", "e", ".", "t", "x", "t" >>

(***************************************************************************)
(* load_gitignore_rules                                                    *)
(***************************************************************************)

\* if stripped_line and not stripped_line.startswith('#')
is_rule_line(line) ==
    LET stripped_line == strip(line)
    IN  stripped_line # << >> /\ ~startswith(stripped_line, << "#" >>)

RECURSIVE read_rules(_)
read_rules(lines) ==
    IF lines = << >> THEN << >>
    ELSE IF is_rule_line(Head(lines))
    THEN << strip(Head(lines)) >> \o read_rules(Tail(lines))
    ELSE read_rules(Tail(lines))

\* A faulty variant: the version-control rule is appended only when no file exists.
load_gitignore_rules_no_append(file) ==
    IF file.exists THEN read_rules(file.lines) ELSE << s_git_rule >>

\* file: [exists, lines], the rules file at gitignore_path
load_gitignore_rules(file) ==
    (IF file.exists THEN read_rules(file.lines) ELSE << >>) \o << s_git_rule >>

(***************************************************************************)
(* Inputs: the trees on disk, the rules file, the start path, the output   *)
(* file name                                                               *)
(***************************************************************************)

\* The longest rules file, in lines, and the longest rule list handed to
\* should_ignore on its own.
MaxRules == 2

n_a_txt == << "a", ".", "t", "x", "t" >>
n_img_png == << "i", "m", "g", ".", "p", "n", "g" >>
n_logo_png == << "L", "O", "G", "O", ".", "P", "N", "G" >>
n_build == << "b", "u", "i", "l", "d" >>
n_x_txt == << "x", ".", "t", "x", "t" >>
n_docs == << "d", "o", "c", "s" >>
n_out_txt == << "o", "u", "t", ".", "t", "x", "t" >>
n_empty == << "e", "m", "p", "t", "y" >>
n_git == << ".", "g", "i", "t" >>
n_config == << "c", "o", "n", "f", "i", "g" >>
n_a == << "a" >>
n_b == << "b" >>
n_c == << "c" >>
n_d == << "d" >>
n_f_txt == << "f", ".", "t", "x", "t" >>
n_g_md == << "g", ".", "m", "d" >>
n_h_py == << "h", ".", "p", "y" >>
n_i_txt == << "i", ".", "t", "x", "t" >>
n_sub == << "s", "u", "b" >>
n_head == << "H", "E", "A", "D" >>
n_getpip == << "G", "e", "t", "-", "P", "i", "p", ".", "p", "y" >>
n_m_txt == << "m", ".", "t", "x", "t" >>

n_gitignore == << ".", "g", "i", "t", "i", "g", "n", "o", "r", "e" >>

Dir(parent, name) ==
    [parent |-> parent, name |-> name, kind |-> "dir", content |-> << >>]

File(parent, name, content) ==
    [parent |-> parent, name |-> name, kind |-> "file", content |-> content]

\* The trees list their nodes in the order os.scandir gives them, which is
\* the file system's; rules_nodes holds the node of the rules file when it
\* lies in the start directory, and is empty otherwise.

\* a stale report, LOGO.PNG, img.png, a.txt, .git/config, an empty
\* directory, build/x.txt and docs/out.txt
TreeFlat(rules_nodes) ==
    << File(<< >>, s_output_default,
            << "s", "t", "a", "l", "e" >>),
       File(<< >>, n_logo_png, << "P", "N", "G" >>),
       File(<< >>, n_img_png, << "p", "n", "g" >>) >>
    \o rules_nodes
    \o << File(<< >>, n_a_txt, << "h", "e", "l", "l", "o" >>),
          Dir(<< >>, n_git),
          File(<< n_git >>, n_config, << "[", "c", "o", "r", "e", "]" >>),
          Dir(<< >>, n_empty),
          Dir(<< >>, n_build),
          File(<< n_build >>, n_x_txt, << "x" >>),
          Dir(<< >>, n_docs),
          File(<< n_docs >>, n_out_txt, << "o", "u", "t" >>) >>

\* sub/ with a nested .git, and a/b/c/d with one file at each level
TreeNested(rules_nodes) ==
    << Dir(<< >>, n_sub),
       Dir(<< n_sub >>, n_git),
       File(<< n_sub, n_git >>, n_head, << "r", "e", "f" >>),
       File(<< n_sub >>, n_getpip, << "p", "i", "p" >>),
       File(<< n_sub >>, n_m_txt, << "m" >>),
       Dir(<< >>, n_a),
       File(<< n_a >>, n_f_txt, << "f" >>),
       Dir(<< n_a >>, n_b),
       File(<< n_a, n_b >>, n_g_md, << "g" >>),
       Dir(<< n_a, n_b >>, n_c),
       File(<< n_a, n_b, n_c >>, n_h_py, << "h" >>),
       Dir(<< n_a, n_b, n_c >>, n_d),
       File(<< n_a, n_b, n_c, n_d >>, n_i_txt, << "i" >>) >>
    \o rules_nodes

Reverse(seq) == [i \in 1..Len(seq) |-> seq[Len(seq) + 1 - i]]

\* Each tree in two listing orders
Trees(rules_nodes) ==
    { TreeFlat(rules_nodes), Reverse(TreeFlat(rules_nodes)),
      TreeNested(rules_nodes), Reverse(TreeNested(rules_nodes)) }

s_abs_start ==
    << "/", "h", "o", "m", "e", "/", "b", "u", "i", "l", "d", "/",
       "p", "r", "o", "j" >>

\* A start path that is itself a directory named .git
s_git_start == << ".", "g", "i", "t" >>

StartPaths == { s_dot, s_abs_start, s_git_start }

s_output_nested ==
    << "d", "o", "c", "s", "/", "o", "u", "t", ".", "t", "x", "t" >>

OutputNames == { s_output_default, s_output_nested }

l_build_dir == << "b", "u", "i", "l", "d", "/", "\n" >>
l_build == << "b", "u", "i", "l", "d", "\n" >>
l_comment == << " ", " ", "#", " ", "x", "\n" >>
l_blank == << "\n" >>
l_png == << " ", "*", ".", "p", "n", "g", " ", "\n" >>

LinePool == { l_build_dir, l_build, l_comment, l_blank, l_png }

\* Every sequence over S of at most n elements
SeqsUpTo(S, n) == UNION { [1..k -> S] : k \in 0..n }

RulesFiles ==
    { [exists |-> FALSE, lines |-> << >>] }
    \cup { [exists |-> TRUE, lines |-> ls] : ls \in SeqsUpTo(LinePool, MaxRules) }

\* file.read() of the rules file: its lines, one after the other
RECURSIVE read_text(_)
read_text(lines) ==
    IF lines = << >> THEN << >> ELSE Head(lines) \o read_text(Tail(lines))

\* main() loads '.gitignore' from the working directory: the file is in the
\* tree that is walked when the walk starts at '.'
rules_nodes_of(file, start) ==
    IF file.exists /\ start = s_dot
    THEN << File(<< >>, n_gitignore, read_text(file.lines)) >>
    ELSE << >>

(***************************************************************************)
(* State                                                                   *)
(***************************************************************************)

VARIABLES
    pc,                 \* where main() is: load, walk, save, done; or the
                        \*   call an exception left: load_raised, raised
                        \*   (in collect_files), save_raised
    tree,               \* the files and directories under start_path
    gitignore,          \* the rules file: [exists, lines]
    start_path,         \* collect_files' start_path
    output_filename,    \* collect_files' output_filename
    max_depth,          \* the depth limit the caller asks for
    ignore_rules,       \* the loaded rules
    stack,              \* os.walk: the directories still to yield
    root,               \* the directory os.walk yielded last
    dirs,               \* its subdirectory names, after the filter
    files,              \* its file names not handled yet
    walked,             \* every root os.walk has yielded, in order
    project_structure,  \* the dict, as its items in insertion order
    report,             \* what save_structure wrote, once it has returned
    q_path,             \* should_ignore called on its own: the path
    q_rules,            \*   the rules
    q_result            \*   "True" or "False" as returned, "none" before

walk_vars == << stack, root, dirs, files, walked, project_structure >>

input_vars == << tree, gitignore, start_path, output_filename, max_depth >>

query_vars == << q_path, q_rules, q_result >>

vars == << pc, input_vars, ignore_rules, walk_vars, report, query_vars >>

(***************************************************************************)
(* The file system under start_path                                        *)
(***************************************************************************)

\* The components of a path below start_path: the way the file system
\* resolves the path strings os.walk builds.
fs_segments(path) ==
    LET rel == relpath(path, start_path)
    IN  IF rel = << "." >> THEN << >> ELSE split(rel, "/")

\* os.scandir(top): the names of one kind in a directory, in listing order
listdir(top, kind) ==
    LET here == SelectSeq(tree, LAMBDA n :
                    n.parent = fs_segments(top) /\ n.kind = kind)
    IN  [i \in 1..Len(here) |-> here[i].name]

\* file.read() of a file that opens
read_content(full_file_path) ==
    LET segs == fs_segments(full_file_path)
        i    == CHOOSE k \in 1..Len(tree) :
                    /\ tree[k].kind = "file"
                    /\ Append(tree[k].parent, tree[k].name) = segs
    IN  tree[i].content

(***************************************************************************)
(* collect_files                                                           *)
(***************************************************************************)

\* [d for d in dirs if not should_ignore(os.path.join(root, d), ignore_rules)]
keep_dir(top, d) == ~should_ignore(join(top, d), ignore_rules)

\* A faulty variant: the full path is compared with the output file name.
is_output_file_full_path(full_file_path) == full_file_path = output_filename

\* relative_file_path == output_filename
is_output_file(full_file_path) ==
    relpath(full_file_path, start_path) = output_filename

\* A faulty variant: the extension and the name are compared as written.
is_non_text_case_sensitive(file_name) ==
    \/ splitext_ext(file_name) \in non_text_extensions
    \/ file_name = s_get_pip

\* file_extension in non_text_extensions or file_name.lower() == 'get-pip.py'
is_non_text(file_name) ==
    \/ lower(splitext_ext(file_name)) \in non_text_extensions
    \/ lower(file_name) = s_get_pip

\* if root not in project_structure: project_structure[root] = []
\* project_structure[root].append((full_file_path, content))
add_entry(structure, key, entry) ==
    IF \E i \in 1..Len(structure) : structure[i].path = key
    THEN [i \in 1..Len(structure) |->
             IF structure[i].path = key
             THEN [structure[i] EXCEPT !.files = Append(@, entry)]
             ELSE structure[i]]
    ELSE Append(structure, [path |-> key, files |-> << entry >>])

\* The path of the file the inner loop is at
full_file_path == join(root, Head(files))

\* main(): gitignore_rules = load_gitignore_rules('.gitignore'), then
\* collect_files is entered and os.walk(start_path) is created
\* main(): load_gitignore_rules('.gitignore') raises: the path exists and
\* open() or the read raises (a directory, permission denied, bytes that are
\* not UTF-8; this open has no errors='ignore'); the exception leaves main()
LoadRaises ==
    /\ pc = "load"
    /\ gitignore.exists
    /\ pc' = "load_raised"
    /\ UNCHANGED << input_vars, ignore_rules, walk_vars, report, query_vars >>

Load ==
    /\ pc = "load"
    /\ ignore_rules' = load_gitignore_rules(gitignore)
    /\ stack' = << start_path >>
    /\ pc' = "walk"
    /\ UNCHANGED << input_vars, root, dirs, files, walked, project_structure,
                    report, query_vars >>

\* for root, dirs, files in os.walk(start_path): the next directory is
\* listed and yielded, dirs[:] is filtered, and os.walk will descend into
\* what is left of dirs before it goes on with the rest
VisitDir ==
    /\ pc = "walk"
    /\ files = << >>
    /\ stack # << >>
    /\ LET top  == Head(stack)
           kept == SelectSeq(listdir(top, "dir"), LAMBDA d : keep_dir(top, d))
       IN  /\ root' = top
           /\ dirs' = kept
           /\ files' = listdir(top, "file")
           /\ stack' = [i \in 1..Len(kept) |-> join(top, kept[i])] \o Tail(stack)
           /\ walked' = Append(walked, top)
    /\ UNCHANGED << pc, input_vars, ignore_rules, project_structure, report,
                    query_vars >>

\* os.walk: os.scandir raises an OSError on the next directory (permission
\* denied, the directory is gone); onerror is None, so the directory is left
\* out without an error: it is not yielded and nothing below it is walked
SkipUnlistableDir ==
    /\ pc = "walk"
    /\ files = << >>
    /\ stack # << >>
    /\ stack' = Tail(stack)
    /\ UNCHANGED << pc, input_vars, ignore_rules, root, dirs, files, walked,
                    project_structure, report, query_vars >>

\* if relative_file_path == output_filename: continue
SkipOutputFile ==
    /\ pc = "walk"
    /\ files # << >>
    /\ is_output_file(full_file_path)
    /\ files' = Tail(files)
    /\ UNCHANGED << pc, input_vars, ignore_rules, stack, root, dirs, walked,
                    project_structure, report, query_vars >>

\* if not should_ignore(relative_file_path, ignore_rules): (not taken)
SkipIgnoredFile ==
    /\ pc = "walk"
    /\ files # << >>
    /\ ~is_output_file(full_file_path)
    /\ should_ignore(relpath(full_file_path, start_path), ignore_rules)
    /\ files' = Tail(files)
    /\ UNCHANGED << pc, input_vars, ignore_rules, stack, root, dirs, walked,
                    project_structure, report, query_vars >>

\* The file is neither the output file nor ignored
file_is_collected ==
    /\ pc = "walk"
    /\ files # << >>
    /\ ~is_output_file(full_file_path)
    /\ ~should_ignore(relpath(full_file_path, start_path), ignore_rules)

\* the non-text branch: the placeholder is stored, the file is not opened
AddNonTextFile ==
    /\ file_is_collected
    /\ is_non_text(Head(files))
    /\ project_structure' =
           add_entry(project_structure, root, << full_file_path, ignored_content >>)
    /\ files' = Tail(files)
    /\ UNCHANGED << pc, input_vars, ignore_rules, stack, root, dirs, walked,
                    report, query_vars >>

\* the text branch, open() and read() succeed: with errors='ignore' the
\* decoder raises no UnicodeDecodeError, so the except clause is never taken
AddTextFile ==
    /\ file_is_collected
    /\ ~is_non_text(Head(files))
    /\ project_structure' =
           add_entry(project_structure, root,
                     << full_file_path, read_content(full_file_path) >>)
    /\ files' = Tail(files)
    /\ UNCHANGED << pc, input_vars, ignore_rules, stack, root, dirs, walked,
                    report, query_vars >>

\* the text branch, open() or read() raises an OSError (permission denied,
\* the file is gone): only UnicodeDecodeError is caught, so the exception
\* leaves collect_files and main()
ReadRaises ==
    /\ file_is_collected
    /\ ~is_non_text(Head(files))
    /\ pc' = "raised"
    /\ UNCHANGED << input_vars, ignore_rules, walk_vars, report, query_vars >>

\* os.walk is exhausted: return project_structure
Return ==
    /\ pc = "walk"
    /\ files = << >>
    /\ stack = << >>
    /\ pc' = "save"
    /\ UNCHANGED << input_vars, ignore_rules, walk_vars, report, query_vars >>

(***************************************************************************)
(* save_structure                                                          *)
(***************************************************************************)

\* for file_name, content in files: the file header, then the content
RECURSIVE write_files(_)
write_files(entries) ==
    IF entries = << >> THEN << >>
    ELSE << [line |-> "File", text |-> Head(entries)[1]],
            [line |-> "Content", text |-> Head(entries)[2]] >>
         \o write_files(Tail(entries))

\* for path, files in structure.items(): the directory header, then the files
RECURSIVE write_structure(_)
write_structure(structure) ==
    IF structure = << >> THEN << >>
    ELSE << [line |-> "Directory", text |-> Head(structure).path] >>
         \o write_files(Head(structure).files)
         \o write_structure(Tail(structure))

\* os.path.join(os.getcwd(), path): the path open() walks, and its components
open_path(path) == join(getcwd, path)

open_comps(path) == non_empty(split(open_path(path), "/"))

\* The directory the first k components lead to, as absolute components,
\* when every directory on the way exists: '.' stays, '..' goes up
resolved(comps, k) ==
    non_empty(split(normpath(<< "/" >> \o str_join(SubSeq(comps, 1, k), "/")), "/"))

start_list == non_empty(split(abspath(start_path), "/"))

\* Whether absolute components lie at or under start_path
under_start(list) == common_len(start_list, list) = Len(start_list)

\* The components below start_path
below_start(list) == SubSeq(list, Len(start_list) + 1, Len(list))

\* Whether the tree t holds a node of the kind at the components
has_node(t, segs, kind) ==
    \E i \in 1..Len(t) :
        t[i].kind = kind /\ Append(t[i].parent, t[i].name) = segs

\* Absolute components at or under start_path that are not a directory
not_a_directory(t, list) ==
    /\ under_start(list)
    /\ below_start(list) # << >>
    /\ ~has_node(t, below_start(list), "dir")

\* Absolute components at or under start_path that are a directory
is_a_directory(t, list) ==
    /\ under_start(list)
    /\ below_start(list) = << >> \/ has_node(t, below_start(list), "dir")

\* Whether open() resolves the path to a place under start_path: relative
\* paths are resolved against the working directory, which is start_path
\* when main() walks '.'
in_tree(path) == under_start(resolved(open_comps(path), Len(open_comps(path))))

\* The components of such a path below start_path
tree_segments(path) ==
    below_start(resolved(open_comps(path), Len(open_comps(path))))

\* open(output_path, 'w') raises for what the tree shows: the path names a
\* directory (it ends with a separator, '.' or '..', or a directory is
\* there: IsADirectoryError), or a component on the way is missing or is a
\* file (FileNotFoundError, NotADirectoryError)
open_w_raises(t, path) ==
    LET comps == open_comps(path)
        n     == Len(comps)
    IN  \/ n = 0
        \/ endswith(open_path(path), << "/" >>)
        \/ comps[n] \in { << "." >>, << ".", "." >> }
        \/ \E k \in 1..(n - 1) : not_a_directory(t, resolved(comps, k))
        \/ is_a_directory(t, resolved(comps, n))

\* The tree once the file at the components has been opened for writing,
\* written and closed: an existing file is truncated and holds the new
\* content, a missing one is created
open_w(t, segs, content) ==
    IF has_node(t, segs, "file")
    THEN [i \in 1..Len(t) |->
             IF t[i].kind = "file" /\ Append(t[i].parent, t[i].name) = segs
             THEN [t[i] EXCEPT !.content = content]
             ELSE t[i]]
    ELSE Append(t, File(DropLast(segs), segs[Len(segs)], content))

\* What the output file holds when a write raised after open() truncated
\* it: a proper prefix of the report, cut wherever the write failed
partly_written(text) == [proper_prefix_of |-> text]

\* save_structure(project_structure, output_file): open() succeeds and the
\* report is written.  Under start_path the file is created or overwritten
\* in the tree; elsewhere the file system is not tracked and only the
\* report written is kept.
Save ==
    /\ pc = "save"
    /\ ~open_w_raises(tree, output_filename)
    /\ tree' = IF in_tree(output_filename)
               THEN open_w(tree, tree_segments(output_filename),
                           write_structure(project_structure))
               ELSE tree
    /\ report' = write_structure(project_structure)
    /\ pc' = "done"
    /\ UNCHANGED << gitignore, start_path, output_filename, max_depth,
                    ignore_rules, walk_vars, query_vars >>

\* save_structure(project_structure, output_file): open() raises an OSError,
\* nothing is written and the exception leaves main().  Under start_path a
\* missing directory or a directory at the path makes it raise; permissions,
\* and what lies outside start_path, are not tracked, so open() may raise
\* wherever it is called.
SaveRaises ==
    /\ pc = "save"
    /\ pc' = "save_raised"
    /\ UNCHANGED << input_vars, ignore_rules, walk_vars, report, query_vars >>

\* save_structure(project_structure, output_file): open() succeeds and
\* truncates the file, then a write or the close raises an OSError (the
\* disk is full, the file size limit is reached): the exception leaves
\* main() and the file is left with part of the report
SaveWriteRaises ==
    /\ pc = "save"
    /\ ~open_w_raises(tree, output_filename)
    /\ write_structure(project_structure) # << >>
    /\ tree' = IF in_tree(output_filename)
               THEN open_w(tree, tree_segments(output_filename),
                           partly_written(write_structure(project_structure)))
               ELSE tree
    /\ pc' = "save_raised"
    /\ UNCHANGED << gitignore, start_path, output_filename, max_depth,
                    ignore_rules, walk_vars, report, query_vars >>

(***************************************************************************)
(* main(): load the rules, collect, save                                   *)
(***************************************************************************)

Init ==
    /\ pc = "load"
    /\ gitignore \in RulesFiles
    /\ start_path \in StartPaths
    /\ tree \in Trees(rules_nodes_of(gitignore, start_path))
    /\ output_filename \in OutputNames
    /\ max_depth \in { 1, 2 }
    /\ ignore_rules = << >>
    /\ stack = << >>
    /\ root = << >>
    /\ dirs = << >>
    /\ files = << >>
    /\ walked = << >>
    /\ project_structure = << >>
    /\ report = << >>
    /\ q_path = << >>
    /\ q_rules = << >>
    /\ q_result = "none"

Next ==
    \/ LoadRaises
    \/ Load
    \/ VisitDir
    \/ SkipUnlistableDir
    \/ SkipOutputFile
    \/ SkipIgnoredFile
    \/ AddNonTextFile
    \/ AddTextFile
    \/ ReadRaises
    \/ Return
    \/ Save
    \/ SaveRaises
    \/ SaveWriteRaises

Spec == Init /\ [][Next]_vars

(***************************************************************************)
(* should_ignore called on its own, on paths and rule lists drawn from     *)
(* pools                                                                   *)
(***************************************************************************)

p_build == << "b", "u", "i", "l", "d" >>
p_build_x == << "b", "u", "i", "l", "d", "/", "x", ".", "t", "x", "t" >>
p_src_build_x ==
    << "s", "r", "c", "/", "b", "u", "i", "l", "d", "/", "x", ".", "t", "x", "t" >>
p_rebuild_x ==
    << "r", "e", "b", "u", "i", "l", "d", "/", "x", ".", "t", "x", "t" >>
p_a_txt == << "a", ".", "t", "x", "t" >>
p_sub_a_txt == << "s", "u", "b", "/", "a", ".", "t", "x", "t" >>
p_a_txt_bak == << "a", ".", "t", "x", "t", ".", "b", "a", "k" >>
p_dot_build == << ".", "/", "b", "u", "i", "l", "d" >>
p_abs_docs ==
    << "/", "h", "o", "m", "e", "/", "b", "u", "i", "l", "d", "/",
       "p", "r", "o", "j", "/", "d", "o", "c", "s" >>
p_b_txt == << "b", ".", "t", "x", "t" >>
p_docs == << "d", "o", "c", "s" >>
p_git_config == << ".", "g", "i", "t", "/", "c", "o", "n", "f", "i", "g" >>
p_ab_txt == << "a", "b", ".", "t", "x", "t" >>

PathPool ==
    { p_build, p_build_x, p_src_build_x, p_rebuild_x, p_a_txt, p_sub_a_txt,
      p_a_txt_bak, p_dot_build, p_abs_docs, p_b_txt, p_docs, p_git_config,
      p_ab_txt }

r_build_dir == << "b", "u", "i", "l", "d", "/" >>
r_build_dir2 == << "b", "u", "i", "l", "d", "/", "/" >>
r_glob_dir == << "b", "u", "*", "l", "d", "/" >>
r_build == << "b", "u", "i", "l", "d" >>
r_a_txt == << "a", ".", "t", "x", "t" >>
r_star_txt == << "*", ".", "t", "x", "t" >>
r_q_txt == << "?", ".", "t", "x", "t" >>
r_class_txt == << "[", "a", "b", "]", ".", "t", "x", "t" >>
r_docs == << "d", "o", "c", "s" >>
r_sub_star == << "s", "u", "b", "/", "*" >>

RulePool ==
    { r_build_dir, r_build_dir2, r_glob_dir, r_build, r_a_txt, r_star_txt,
      r_q_txt, r_class_txt, r_docs, r_sub_star, s_git_rule }

InitIgnore ==
    /\ pc = "query"
    /\ tree = << >>
    /\ gitignore = [exists |-> FALSE, lines |-> << >>]
    /\ start_path = s_dot
    /\ output_filename = s_output_default
    /\ max_depth = 2
    /\ ignore_rules = << >>
    /\ stack = << >>
    /\ root = << >>
    /\ dirs = << >>
    /\ files = << >>
    /\ walked = << >>
    /\ project_structure = << >>
    /\ report = << >>
    /\ q_path \in PathPool
    /\ q_rules \in SeqsUpTo(RulePool, MaxRules)
    /\ q_result = "none"

\* should_ignore(path, ignore_rules) is called and returns
CallShouldIgnore ==
    /\ pc = "query"
    /\ q_result = "none"
    /\ q_result' = IF should_ignore(q_path, q_rules) THEN "True" ELSE "False"
    /\ UNCHANGED << pc, input_vars, ignore_rules, walk_vars, report, q_path,
                    q_rules >>

NextIgnore == CallShouldIgnore

SpecIgnore == InitIgnore /\ [][NextIgnore]_vars

(***************************************************************************)
(* Properties                                                              *)
(***************************************************************************)

Range(seq) == { seq[i] : i \in 1..Len(seq) }

\* The keys of the result: the directories that have an entry
Keys == { item.path : item \in Range(project_structure) }

\* The file entries of the result, as (directory, path, content)
Entries ==
    UNION { { << item.path, e[1], e[2] >> : e \in Range(item.files) } :
            item \in Range(project_structure) }

\* The path relative to start_path, and those of the directories above it
\* up to start_path
SelfAndAncestors(path) ==
    LET segs == fs_segments(path)
    IN  { str_join(SubSeq(segs, 1, k), "/") : k \in 1..Len(segs) }

\* collect_files has returned
Returned == pc \in { "save", "done", "save_raised" }

\* The names and kinds of a tree's nodes, without the contents
names(t) == [i \in 1..Len(t) |-> << t[i].parent, t[i].name, t[i].kind >>]

\* C1 (ignore-closure): when should_ignore is true of a path relative to
\* the start path, the result holds no entry for that path and none for a
\* path beneath it.
C1_IgnoreClosure ==
    Returned =>
        \A e \in Entries :
            /\ \A p \in SelfAndAncestors(e[1]) : ~should_ignore(p, ignore_rules)
            /\ \A p \in SelfAndAncestors(e[2]) : ~should_ignore(p, ignore_rules)

\* C2 (self-exclusion): no file entry of the result, and no file header of
\* the report, has a path that relative to start_path equals
\* output_filename.
C2_SelfExclusion ==
    /\ \A e \in Entries : relpath(e[2], start_path) # output_filename
    /\ \A l \in Range(report) :
           l.line = "File" => relpath(l.text, start_path) # output_filename

\* C2's case: the walk is over, it listed a directory that held the output
\* file (save_structure has created no file: the tree has the nodes it
\* started with), and no rule ignores that file.
C2_Witness ==
    /\ pc = "done"
    /\ names(tree) \in { names(t) :
                             t \in Trees(rules_nodes_of(gitignore, start_path)) }
    /\ ~should_ignore(output_filename, ignore_rules)
    /\ \E r \in Range(walked) : \E f \in Range(listdir(r, "file")) :
           relpath(join(r, f), start_path) = output_filename
    /\ Entries # { }

\* C3 as stated (version-control exclusion): the loaded rules end with
\* '.git/', whether the rules file is present, empty or missing; os.walk
\* never yields a directory with a '.git' segment and no entry's path has
\* one.
C3_VersionControlExclusion ==
    pc \in { "walk", "save", "done", "raised", "save_raised" } =>
        /\ ignore_rules # << >>
        /\ ignore_rules[Len(ignore_rules)] = s_git_rule
        /\ \A r \in Range(walked) : n_git \notin Range(split(r, "/"))
        /\ \A e \in Entries : n_git \notin Range(split(e[2], "/"))

\* C3 as amended: the loaded rules end with '.git/', whether the rules file
\* is present, empty or missing; below the start path os.walk never yields
\* a directory with a '.git' segment, and no entry's path relative to the
\* start path has one.  The start path itself is walked, and its files are
\* listed, also when it is a directory named '.git'.
C3_VersionControlExclusionBelowStart ==
    pc \in { "walk", "save", "done", "raised", "save_raised" } =>
        /\ ignore_rules # << >>
        /\ ignore_rules[Len(ignore_rules)] = s_git_rule
        /\ \A r \in Range(walked) : n_git \notin Range(fs_segments(r))
        /\ \A e \in Entries : n_git \notin Range(fs_segments(e[2]))
        /\ (walked # << >> /\ n_git \in Range(split(start_path, "/")))
               => walked[1] = start_path

\* C3's case: the walk started at a directory named .git that holds a
\* directory named .git, it is over, and it collected files of the start
\* directory.
C3_Witness ==
    /\ pc = "done"
    /\ n_git \in Range(split(start_path, "/"))
    /\ \E r \in Range(walked) : n_git \in Range(listdir(r, "dir"))
    /\ Entries # { }

\* C4 (opacity): once collect_files has returned, every file of a directory
\* os.walk yielded that is not the output file, is not ignored, and whose
\* lowercased extension is in the list (or whose lowercased name is
\* get-pip.py) has an entry with the placeholder, and no entry with
\* anything else.
C4_Opacity ==
    Returned =>
        \A r \in Range(walked) : \A f \in Range(listdir(r, "file")) :
            LET full == join(r, f)
                rel  == relpath(full, start_path)
            IN  ( /\ rel # output_filename
                  /\ ~should_ignore(rel, ignore_rules)
                  /\ \/ lower(splitext_ext(f)) \in non_text_extensions
                     \/ lower(f) = s_get_pip )
                => /\ << r, full, ignored_content >> \in Entries
                   /\ \A e \in Entries : e[2] = full => e[3] = ignored_content

\* C4's case: the result holds the placeholder for a file whose extension
\* is written in upper case.
C4_Witness ==
    /\ pc = "done"
    /\ \E e \in Entries :
           /\ e[3] = ignored_content
           /\ endswith(e[2], n_logo_png)

\* C5 (depth pruning): with max depth d asked for (the start path is depth
\* 0), the result holds no entry for a directory deeper than d, nor for
\* anything beneath one.
C5_DepthPruning ==
    Returned =>
        \A e \in Entries : Len(fs_segments(e[1])) <= max_depth

\* C6 (read-fault containment): a text file that cannot be opened or read
\* does not abort collect_files.
C6_ReadFaultContained == pc # "raised"

\* C7 (directory completeness): every subdirectory the walk reaches that is
\* not ignored has an entry in the result and a directory header in the
\* report, also when it holds no collected file.
C7_DirectoryCompleteness ==
    pc = "done" =>
        \A r \in Range(walked) :
            ( /\ r # start_path
              /\ ~should_ignore(relpath(r, start_path), ignore_rules) )
            => /\ r \in Keys
               /\ [line |-> "Directory", text |-> r] \in Range(report)

\* C8 (relative classification): the subdirectories the walk keeps are
\* those whose path relative to start_path should_ignore does not match.
C8_RelativeClassification ==
    (pc = "walk" /\ walked # << >>) =>
        dirs = SelectSeq(listdir(root, "dir"), LAMBDA d :
                   ~should_ignore(relpath(join(root, d), start_path), ignore_rules))

\* Whether some '/'-separated segment of path is exactly name: a run of
\* characters between two separators (or an end of the path) equal to name
HasSegment(path, name) ==
    \E a \in 1..(Len(path) + 1) :
        LET b == a + Len(name) - 1
        IN  /\ b <= Len(path)
            /\ a = 1 \/ path[a - 1] = "/"
            /\ b = Len(path) \/ path[b + 1] = "/"
            /\ \A k \in a..b : path[k] = name[k - a + 1] /\ path[k] # "/"

\* The rule without any of its trailing slashes
WithoutTrailingSlashes(rule) ==
    LET n == CHOOSE k \in 0..Len(rule) :
                 /\ k = 0 \/ rule[k] # "/"
                 /\ \A j \in (k + 1)..Len(rule) : rule[j] = "/"
    IN  SubSeq(rule, 1, n)

\* should_ignore was called with one rule, a rule ending in '/'
OneDirRule ==
    /\ q_result # "none"
    /\ Len(q_rules) = 1
    /\ endswith(q_rules[1], << "/" >>)

\* C9 as stated (directory-only rules): with one rule r ending in '/',
\* should_ignore is true exactly when a segment of the path equals r
\* without its trailing slash.
C9_DirRuleOneSlashRemoved ==
    OneDirRule =>
        (q_result = "True" <=> HasSegment(q_path, DropLast(q_rules[1])))

\* C9 as amended: with one rule r ending in '/', should_ignore is true
\* exactly when a segment of the path equals r without all of its trailing
\* slashes: at any depth, never by a glob match, never by a substring match.
C9_DirRuleSegmentEquality ==
    OneDirRule =>
        /\ q_result = "True"
               <=> HasSegment(q_path, WithoutTrailingSlashes(q_rules[1]))
        /\ (q_rules[1] = r_build_dir /\ q_path = p_src_build_x)
               => q_result = "True"
        /\ (q_rules[1] = r_glob_dir /\ q_path = p_build_x)
               => q_result = "False"
        /\ (q_rules[1] = r_build_dir /\ q_path = p_rebuild_x)
               => q_result = "False"

\* C9's case: 'build/' was matched against 'src/build/x.txt'.
C9_Witness ==
    /\ q_rules = << r_build_dir >>
    /\ q_path = p_src_build_x
    /\ q_result = "True"

\* What one rule not ending in '/' must return on the path, for the forms
\* of glob whose meaning is plain: no '*' and no class (each '?' stands for
\* one character, every other character for itself), '*' followed by
\* literal text (the path ends with it), literal text followed by '*' (the
\* path starts with it).
NoneOf(rule, chars) == \A i \in 1..Len(rule) : rule[i] \notin chars

WholePathMatch(path, rule) ==
    IF NoneOf(rule, { "*", "[" })
    THEN /\ Len(path) = Len(rule)
         /\ \A i \in 1..Len(rule) : rule[i] = "?" \/ rule[i] = path[i]
    ELSE IF rule[1] = "*" /\ NoneOf(Tail(rule), { "*", "?", "[" })
    THEN endswith(path, Tail(rule))
    ELSE IF rule[Len(rule)] = "*" /\ NoneOf(DropLast(rule), { "*", "?", "[" })
    THEN startswith(path, DropLast(rule))
    ELSE should_ignore(path, << rule >>)

\* C10 (non-directory rules): a rule not ending in '/' ignores a path only
\* when the glob matches the whole path string: a rule without wildcards
\* ignores exactly the path equal to it; and should_ignore over a list is
\* true exactly when at least one rule matches, in whatever order the rules
\* come.
C10_GlobRuleWholePath ==
    q_result # "none" =>
        /\ \A k \in 1..Len(q_rules) :
               ~endswith(q_rules[k], << "/" >>) =>
                   /\ should_ignore(q_path, << q_rules[k] >>)
                          <=> WholePathMatch(q_path, q_rules[k])
                   /\ NoneOf(q_rules[k], { "*", "?", "[" }) =>
                          (should_ignore(q_path, << q_rules[k] >>)
                               <=> q_path = q_rules[k])
        /\ q_result = "True"
               <=> \E k \in 1..Len(q_rules) : should_ignore(q_path, << q_rules[k] >>)
        /\ q_result = "True" <=> should_ignore(q_path, Reverse(q_rules))

\* C10's case: 'a.txt' was matched by the second rule of a list, a rule
\* without wildcards.
C10_Witness ==
    /\ q_rules = << r_docs, r_a_txt >>
    /\ q_path = p_a_txt
    /\ q_result = "True"

====
